---- MODULE Spec2Model ----
(***************************************************************************)
(* Run lifecycle of the Veins simulation service: the persisted Run row,   *)
(* the API requests that dispatch, synchronise and cancel it (each on its  *)
(* own session and loaded copy), the Celery broker's view of the executor  *)
(* task, and the stop task.                                                *)
(***************************************************************************)
EXTENDS Integers, FiniteSets, Sequences, Bags, TLC

\* ---------------------------------------------------------------- bounds
NumReq == 2          \* requests that can be in flight at the same time
MaxClock == 3        \* timestamps ever taken with datetime.now()

\* ------------------------------------------------------------- RunStatus
PENDING == "pending"
STARTING == "starting"
RUNNING == "running"
SUCCESS == "success"
FAILED == "failed"
CANCELLING == "cancelling"
CANCELLED == "cancelled"
RunStatus == {PENDING, STARTING, RUNNING, SUCCESS, FAILED, CANCELLING, CANCELLED}
Terminal == {SUCCESS, FAILED, CANCELLED}

NULL == 0            \* None for task_id, start_time, end_time

\* Columns of the run row that the lifecycle reads and writes.
Fields == {"status", "task_id", "start_time", "end_time", "use_gui"}

\* Run(project_id=..., use_gui=g): the column defaults.
NewRun(g) ==
  [status |-> PENDING, task_id |-> NULL, start_time |-> NULL,
   end_time |-> NULL, use_gui |-> g]

VARIABLES
  db,        \* the persisted run row
  req,       \* bag of the requests in flight: operation, position, loaded copy
  resp,      \* the response the last step sent, if it sent one
  now,       \* datetime.now(): number of timestamps taken so far
  nsent,     \* veins_simulation.run tasks accepted by the broker (ids 1..nsent)
  bstate,    \* broker state of each run task
  bmeta,     \* meta / result payload 'status' of each run task
  lateStops, \* stop tasks still queued after their caller stopped waiting
  epc,       \* where the executor of the run task stands in run_simulation
  wproc,     \* the worker process the executor runs in (0: none yet)
  container, \* the container the executor launched, as the runtime has it
  code,      \* the exit code of the container
  vnc_url,   \* the 'vnc_url' the executor last published
  registry,  \* per worker process: the tasks in its _task_container_mapping
  scratch,   \* the project's results directory has entries
  outdir,    \* the entries were moved into the run's directory
  task_container_mapping, \* the dict of one worker process, by task id
  calls,     \* per task: the registry function it is in, if any
  hist,      \* the dict operations performed so far, in order
  results_dir, \* the runs whose containers produced the entries of <project>/results
  run_dir,   \* per run of the project: the producers of the entries of its directory
  rpc        \* per run of the project: how far its dispatch and execution got

\* The worker's side: what the executor and the stop task act on.
wvars == <<epc, wproc, container, code, vnc_url, registry, scratch, outdir>>

\* The registry of one process taken by itself.
rvars == <<task_container_mapping, calls, hist>>

\* The directories of one project with several runs.
pvars == <<results_dir, run_dir, rpc>>

vars == <<db, req, resp, now, nsent, bstate, bmeta, lateStops, wvars, rvars, pvars>>

\* Runs of one project.
NumRuns == 2
Runs == 1..NumRuns

\* Worker processes of the pool, each with its own module globals.
NumProcs == 2
Procs == 1..NumProcs

\* await self.uuid(): the access token of the run, passed to the executor.
vnc_uuid == "vnc_uuid"

\* vnc_url of the executor: None, or the URL with the token in its path.
NoUrl == << >>
VncUrl(uuid) == <<"http://localhost", "vnc", uuid>>

\* Every dispatching request is in flight from its load to its commit, and
\* after the first commit a load sees the task_id: no more tasks than
\* requests in flight.
TaskIds == 1..NumReq

\* No registry function is being executed.
Idle == [op |-> "none", val |-> NULL]

NoResponse ==
  [op |-> "none", api |-> FALSE, res |-> "none", run |-> NewRun(FALSE), prep |-> 0]

\* -------------------------------------------------------- session / save
\* The unit of work flushes an UPDATE of exactly the attributes whose value
\* differs from the value loaded into the session; the other columns keep
\* what the row holds.
Commit(d, l, b) == [f \in Fields |-> IF l[f] # b[f] THEN l[f] ELSE d[f]]

\* A save that also takes the relationship to load.
SaveParamsWithLoad == {"session", "load"}

\* Parameters TableBase.save accepts besides self.
SaveParams == {"session"}

\* Python binds a call's arguments against the signature; an unexpected
\* keyword argument raises TypeError before the body runs.
CallBinds(args, params) == args \subseteq params

Init ==
  /\ db \in {NewRun(g) : g \in BOOLEAN}
  /\ req = EmptyBag
  /\ resp = NoResponse
  /\ now = 0
  /\ nsent = 0
  /\ bstate = [t \in TaskIds |-> "NONE"]
  /\ bmeta = [t \in TaskIds |-> "none"]
  /\ lateStops = {}
  /\ epc = "queued"
  /\ wproc = 0
  /\ container = "none"
  /\ code = 0
  /\ vnc_url = NoUrl
  /\ registry = [p \in Procs |-> {}]
  /\ scratch = FALSE
  /\ outdir = FALSE
  /\ task_container_mapping = [t \in TaskIds |-> NULL]
  /\ calls = [t \in TaskIds |-> Idle]
  /\ hist = << >>
  /\ results_dir = {}
  /\ run_dir = [r \in Runs |-> {}]
  /\ rpc = [r \in Runs |-> "pending"]

\* ------------------------------------------------------- request plumbing
InFlight == BagToSet(req)

\* Timestamps the cancels in flight will still take.
Stamping ==
  LET S == {q \in InFlight : /\ q.op = "cancel"
                             /\ \/ q.pc \in {"refresh", "wait_stop"}
                                \/ q.pc = "save" /\ q.cont = "refresh"}
  IN BagCardinality([q \in S |-> req[q]])

ClockLeft == now + Stamping < MaxClock

\* A response goes out before the next step is taken: resp is only ever
\* written, so the order of the other steps loses nothing by it.
Ready == resp = NoResponse

\* A request can arrive: it gets a session of its own (get_session) and
\* loads the run with Run.get_exist_one.
Arrives == Ready /\ BagCardinality(req) < NumReq

\* The request for operation o, with copy l of the run.
Started(o, a, l) ==
  [op |-> o, api |-> a, pc |-> "loaded", loc |-> l, base |-> l,
   cont |-> "done", task |-> NULL, prep |-> 0, stop |-> "none"]

\* Request q joins, leaves, or goes on as n.
Open(q) == req (+) SetToBag({q})
Close(q) == req (-) SetToBag({q})
Goes(q, n) == Close(q) (+) SetToBag({n})

\* The response: the session closes.
Answer(q, res, l) ==
  [op |-> q.op, api |-> q.api, res |-> res, run |-> l, prep |-> q.prep]

\* TableBase.save: session.add and commit, then session.refresh.  The last
\* save of a method is followed by its return, and the refresh only fills
\* the run that is returned; after an earlier save the method goes on with
\* the copy a later refresh step loads.
Save ==
  \E q \in InFlight :
    /\ Ready
    /\ q.pc = "save"
    /\ db' = Commit(db, q.loc, q.base)
    /\ IF q.cont = "done"
         THEN /\ req' = Close(q)
              /\ resp' = Answer(q, "ok", db')
         ELSE /\ req' = Goes(q, [q EXCEPT !.pc = q.cont, !.cont = "done"])
              /\ resp' = NoResponse
    /\ UNCHANGED <<pvars, rvars, wvars, now, nsent, bstate, bmeta, lateStops>>

\* The response has been sent.
Respond ==
  /\ ~Ready
  /\ resp' = NoResponse
  /\ UNCHANGED <<pvars, rvars, wvars, db, req, now, nsent, bstate, bmeta, lateStops>>

\* ---------------------------------------------------------------- execute
\* The handler without its status check.
ApiRejectsDropped(l) == FALSE

\* execute_run / execute_run_admin: status check on the loaded copy.
ApiRejects(l) == l.status # PENDING

\* Run.execute without its task_id guard.
AlreadyDispatchedDropped(l) == FALSE

\* Run.execute: "if self.task_id: return self".
AlreadyDispatched(l) == l.task_id # NULL

\* The handler loads the run and answers 400.
ExecuteRejected ==
  /\ Arrives
  /\ ApiRejects(db)
  /\ resp' = Answer(Started("execute", TRUE, db), "http400", db)
  /\ UNCHANGED <<pvars, rvars, wvars, db, req, now, nsent, bstate, bmeta, lateStops>>

\* Run.execute on a loaded run that has a task_id, called by a handler
\* (a = TRUE, after its status check) or directly on the model object.
ExecuteNoop(a) ==
  /\ Arrives
  /\ ~(a /\ ApiRejects(db))
  /\ AlreadyDispatched(db)
  /\ resp' = Answer(Started("execute", a, db), "unchanged", db)
  /\ UNCHANGED <<pvars, rvars, wvars, db, req, now, nsent, bstate, bmeta, lateStops>>

\* _prepare_execution (makedirs / rmtree / makedirs) raises: the filesystem
\* error propagates out of execute before anything is sent.
ExecutePrepareFails(a) ==
  /\ Arrives
  /\ ~(a /\ ApiRejects(db))
  /\ ~AlreadyDispatched(db)
  /\ resp' = Answer([Started("execute", a, db) EXCEPT !.prep = 1], "io_error", db)
  /\ UNCHANGED <<pvars, rvars, wvars, db, req, now, nsent, bstate, bmeta, lateStops>>

\* The assignments without start_time.
ExecuteUpdateNoStart(l, t, ts) ==
  [l EXCEPT !.status = STARTING, !.end_time = NULL, !.task_id = t]

\* The attribute assignments of Run.execute after send_task returned.
ExecuteUpdate(l, t, ts) ==
  [l EXCEPT !.status = STARTING, !.start_time = ts, !.end_time = NULL,
            !.task_id = t]

\* Run.execute from the load to the save: _prepare_execution, then
\* celery_app.send_task('veins_simulation.run'), then the assignments.  The
\* steps between the load and the commit touch the filesystem and the
\* broker only, so they are taken with the load.
ExecuteSendTask(a) ==
  /\ Arrives
  /\ ~(a /\ ApiRejects(db))
  /\ ~AlreadyDispatched(db)
  /\ ClockLeft
  /\ nsent' = nsent + 1
  /\ now' = now + 1
  /\ bstate' = [bstate EXCEPT ![nsent + 1] = "PENDING"]
  /\ req' = Open([Started("execute", a, db) EXCEPT
                     !.prep = 1, !.task = nsent + 1, !.pc = "save",
                     !.loc = ExecuteUpdate(db, nsent + 1, now + 1)])
  /\ resp' = NoResponse
  /\ UNCHANGED <<pvars, rvars, wvars, db, bmeta, lateStops>>

\* A dispatcher that persists STARTING before it submits.
ExecuteSendFailsAfterSave(a) ==
  /\ Arrives
  /\ ~(a /\ ApiRejects(db))
  /\ ~AlreadyDispatched(db)
  /\ db' = [db EXCEPT !.status = STARTING]
  /\ resp' = Answer([Started("execute", a, db) EXCEPT !.prep = 1], "broker_error", db)
  /\ UNCHANGED <<pvars, rvars, wvars, req, now, nsent, bstate, bmeta, lateStops>>

\* send_task raises (broker unreachable) after the directory was prepared:
\* execute propagates the error.
ExecuteSendFails(a) ==
  /\ Arrives
  /\ ~(a /\ ApiRejects(db))
  /\ ~AlreadyDispatched(db)
  /\ resp' = Answer([Started("execute", a, db) EXCEPT !.prep = 1], "broker_error", db)
  /\ UNCHANGED <<pvars, rvars, wvars, db, req, now, nsent, bstate, bmeta, lateStops>>

\* ------------------------------------------------------------- get_status
\* Keyword arguments of the call "self.save(session, load=load)".
GetStatusSaveArgs == {"session", "load"}

\* A mapping without its REVOKED entry.
status_mappingNoRevoked(st) ==
  IF st = "SUCCESS" THEN SUCCESS ELSE FAILED

\* status_mapping of Run.get_status.
status_mapping(st) ==
  IF st = "SUCCESS" THEN SUCCESS ELSE IF st = "REVOKED" THEN CANCELLED ELSE FAILED

\* A sync that forgets the task on progress.
GetStatusUpdateDropsTask(l, st, meta, ts) ==
  IF st = "PROGRESS" THEN [l EXCEPT !.status = RUNNING, !.task_id = NULL]
  ELSE l

\* The branch on task_result.state: st is the broker state, meta the
\* 'status' entry of task_result.info ("none" when it has none), ts the
\* value datetime.now() would return.
GetStatusUpdate(l, st, meta, ts) ==
  IF st = "PENDING" THEN [l EXCEPT !.status = PENDING]
  ELSE IF st = "PROGRESS"
    THEN [l EXCEPT !.status = IF meta \in RunStatus THEN meta ELSE RUNNING]
  ELSE IF st \in {"SUCCESS", "FAILURE", "REVOKED"}
    THEN [l EXCEPT !.status = status_mapping(st),
                   !.end_time = IF l.end_time = NULL THEN ts ELSE l.end_time]
  ELSE l

\* An early return for runs without task_id only.
GetStatusSkipsNoTask(l) == l.task_id = NULL

\* Early return of get_status after session.refresh.
GetStatusSkips(l) == l.task_id = NULL \/ l.status \in Terminal

GetStatusUnchanged ==
  /\ Arrives
  /\ GetStatusSkips(db)
  /\ resp' = Answer(Started("get_status", TRUE, db), "unchanged", db)
  /\ UNCHANGED <<pvars, rvars, wvars, db, req, now, nsent, bstate, bmeta, lateStops>>

\* session.refresh, the broker query, the status assignment and the call of
\* save, with no suspension point between them; the call either binds (and
\* the save runs) or raises TypeError and the session is closed unflushed.
\* A timestamp that is dropped with the copy is not counted as taken.
GetStatusSync ==
  /\ Arrives
  /\ ~GetStatusSkips(db)
  /\ LET t == db.task_id
         l == GetStatusUpdate(db, bstate[t], bmeta[t], now + 1)
         g == [Started("get_status", TRUE, db) EXCEPT !.loc = l, !.task = t]
     IN IF CallBinds(GetStatusSaveArgs, SaveParams)
          THEN /\ l.end_time # db.end_time => ClockLeft
               /\ now' = IF l.end_time # db.end_time THEN now + 1 ELSE now
               /\ req' = Open([g EXCEPT !.pc = "save"])
               /\ resp' = NoResponse
          ELSE /\ now' = now
               /\ req' = req
               /\ resp' = Answer(g, "type_error", l)
  /\ UNCHANGED <<pvars, rvars, wvars, db, nsent, bstate, bmeta, lateStops>>

\* ----------------------------------------------------------------- cancel
\* A cancel that goes on without a task_id.
CancelNothingDropped(l) == FALSE

\* "if not self.task_id: return self"
CancelNothing(l) == l.task_id = NULL

CancelNoop ==
  /\ Arrives
  /\ CancelNothing(db)
  /\ resp' = Answer(Started("cancel", TRUE, db), "unchanged", db)
  /\ UNCHANGED <<pvars, rvars, wvars, db, req, now, nsent, bstate, bmeta, lateStops>>

CancelAllowed(l) == l.status \in {STARTING, RUNNING}

\* RuntimeError, turned into HTTP 400 by the handlers.
CancelRejected ==
  /\ Arrives
  /\ ~CancelNothing(db)
  /\ ~CancelAllowed(db)
  /\ resp' = Answer(Started("cancel", TRUE, db), "runtime_error", db)
  /\ UNCHANGED <<pvars, rvars, wvars, db, req, now, nsent, bstate, bmeta, lateStops>>

\* A cancel that submits the stop task before its first save.
CancelAcceptSendsFirst ==
  /\ Arrives
  /\ ~CancelNothing(db)
  /\ CancelAllowed(db)
  /\ ClockLeft
  /\ req' = Open([Started("cancel", TRUE, db) EXCEPT
                     !.loc.status = CANCELLING, !.pc = "wait_stop",
                     !.stop = "queued", !.task = db.task_id])
  /\ resp' = NoResponse
  /\ UNCHANGED <<pvars, rvars, wvars, db, now, nsent, bstate, bmeta, lateStops>>

\* self.status = CANCELLING on the loaded copy, then the first save.
CancelAccept ==
  /\ Arrives
  /\ ~CancelNothing(db)
  /\ CancelAllowed(db)
  /\ ClockLeft
  /\ req' = Open([Started("cancel", TRUE, db) EXCEPT
                     !.loc.status = CANCELLING, !.pc = "save",
                     !.cont = "refresh", !.task = db.task_id])
  /\ resp' = NoResponse
  /\ UNCHANGED <<pvars, rvars, wvars, db, now, nsent, bstate, bmeta, lateStops>>

\* The refresh that ends the first save, then
\* celery_app.send_task('veins_simulation.stop'); it is outside the try
\* block, so a broker error propagates out of cancel.
CancelSendStop ==
  \E q \in InFlight :
    /\ Ready
    /\ q.op = "cancel" /\ q.pc = "refresh"
    /\ \E ok \in BOOLEAN :
         IF ok THEN /\ req' = Goes(q, [q EXCEPT !.loc = db, !.base = db,
                                                !.stop = "queued", !.pc = "wait_stop"])
                    /\ resp' = NoResponse
               ELSE /\ req' = Close(q)
                    /\ resp' = Answer(q, "broker_error", db)
    /\ UNCHANGED <<pvars, rvars, wvars, db, now, nsent, bstate, bmeta, lateStops>>

\* Broker states of a task that has not finished.
Unfinished == {"PENDING", "STARTED", "PROGRESS"}

\* celery_app.control.revoke(task_id, terminate=True) as the broker shows it.
Revoke(bs, t) == IF bs[t] \in Unfinished THEN [bs EXCEPT ![t] = "REVOKED"] ELSE bs

\* stop_simulation run by a worker for a waiting cancel: revoke, then the
\* container teardown, which reports CANCELLED or FAILED.
StopSimulation ==
  \E q \in InFlight :
    /\ Ready
    /\ q.pc = "wait_stop" /\ q.stop = "queued"
    /\ bstate' = Revoke(bstate, q.task)
    /\ \E out \in {CANCELLED, FAILED} : req' = Goes(q, [q EXCEPT !.stop = out])
    /\ resp' = NoResponse
    /\ UNCHANGED <<pvars, rvars, wvars, db, now, nsent, bmeta, lateStops>>

\* stop_simulation run after its caller gave up waiting.
LateStop(t) ==
  /\ Ready
  /\ t \in lateStops
  /\ bstate' = Revoke(bstate, t)
  /\ lateStops' = lateStops \ {t}
  /\ resp' = NoResponse
  /\ UNCHANGED <<pvars, rvars, wvars, db, req, now, nsent, bmeta>>

\* A cancel that also clears start_time.
CancelFinalClearsStart(l, ts) ==
  [l EXCEPT !.status = CANCELLED, !.end_time = ts, !.start_time = NULL]

\* The assignments of both CANCELLED branches of Run.cancel.
CancelFinal(l, ts) == [l EXCEPT !.status = CANCELLED, !.end_time = ts]

\* stop_task.get returned a payload.
CancelStopResult ==
  \E q \in InFlight :
    /\ Ready
    /\ q.op = "cancel" /\ q.pc = "wait_stop"
    /\ q.stop \in {CANCELLED, FAILED}
    /\ IF q.stop = CANCELLED
         THEN /\ now' = now + 1
              /\ req' = Goes(q, [q EXCEPT !.loc = CancelFinal(q.loc, now + 1),
                                          !.pc = "save", !.cont = "done"])
              /\ resp' = NoResponse
         ELSE /\ now' = now
              /\ req' = Close(q)
              /\ resp' = Answer(q, "ok", q.loc)
    /\ UNCHANGED <<pvars, rvars, wvars, db, nsent, bstate, bmeta, lateStops>>

\* stop_task.get(timeout=30) raised: the except branch.
CancelStopRaises ==
  \E q \in InFlight :
    /\ Ready
    /\ q.op = "cancel" /\ q.pc = "wait_stop"
    /\ q.stop = "queued"
    /\ now' = now + 1
    /\ lateStops' = lateStops \cup {q.task}
    /\ req' = Goes(q, [q EXCEPT !.loc = CancelFinal(q.loc, now + 1),
                                !.stop = "gave_up", !.pc = "save", !.cont = "done"])
    /\ resp' = NoResponse
    /\ UNCHANGED <<pvars, rvars, wvars, db, nsent, bstate, bmeta>>

\* ------------------------------------------------- executor task (broker)
Sent(t) == Ready /\ t \in 1..nsent

\* task_track_started: a worker picked the task up.
TaskStarted(t) ==
  /\ Sent(t) /\ bstate[t] = "PENDING"
  /\ bstate' = [bstate EXCEPT ![t] = "STARTED"]
  /\ resp' = NoResponse
  /\ UNCHANGED <<pvars, rvars, wvars, db, req, now, nsent, bmeta, lateStops>>

\* update_state(state='PROGRESS', meta={'status': STARTING, ...})
TaskProgressStarting(t) ==
  /\ Sent(t) /\ bstate[t] = "STARTED"
  /\ bstate' = [bstate EXCEPT ![t] = "PROGRESS"]
  /\ bmeta' = [bmeta EXCEPT ![t] = STARTING]
  /\ resp' = NoResponse
  /\ UNCHANGED <<pvars, rvars, wvars, db, req, now, nsent, lateStops>>

\* GUI poll loop: update_state(state="PROGRESS", meta={"status": RUNNING, ...})
TaskProgressRunning(t) ==
  /\ Sent(t) /\ bstate[t] = "PROGRESS" /\ db.use_gui
  /\ bmeta[t] # RUNNING
  /\ bmeta' = [bmeta EXCEPT ![t] = RUNNING]
  /\ resp' = NoResponse
  /\ UNCHANGED <<pvars, rvars, wvars, db, req, now, nsent, bstate, lateStops>>

\* run_simulation returns a payload: the broker state becomes SUCCESS
\* whatever 'status' the payload carries.  A GUI run returns SUCCESS only
\* after at least one poll iteration.
TaskReturns(t) ==
  /\ Sent(t) /\ bstate[t] = "PROGRESS"
  /\ \E out \in {SUCCESS, FAILED} :
       /\ out = SUCCESS /\ db.use_gui => bmeta[t] = RUNNING
       /\ bmeta' = [bmeta EXCEPT ![t] = out]
  /\ bstate' = [bstate EXCEPT ![t] = "SUCCESS"]
  /\ resp' = NoResponse
  /\ UNCHANGED <<pvars, rvars, wvars, db, req, now, nsent, lateStops>>

\* An exception outside the try block of run_simulation, or the hard time
\* limit: the broker records FAILURE and the payload is the exception.
TaskFails(t) ==
  /\ Sent(t) /\ bstate[t] \in {"STARTED", "PROGRESS"}
  /\ bstate' = [bstate EXCEPT ![t] = "FAILURE"]
  /\ bmeta' = [bmeta EXCEPT ![t] = "none"]
  /\ resp' = NoResponse
  /\ UNCHANGED <<pvars, rvars, wvars, db, req, now, nsent, lateStops>>

Next ==
  \/ Save
  \/ Respond
  \/ ExecuteRejected
  \/ \E a \in BOOLEAN : ExecuteNoop(a)
  \/ \E a \in BOOLEAN : ExecutePrepareFails(a)
  \/ \E a \in BOOLEAN : ExecuteSendTask(a)
  \/ \E a \in BOOLEAN : ExecuteSendFails(a)
  \/ GetStatusUnchanged
  \/ GetStatusSync
  \/ CancelNoop
  \/ CancelRejected
  \/ CancelAccept
  \/ CancelSendStop
  \/ StopSimulation
  \/ \E t \in TaskIds : LateStop(t)
  \/ CancelStopResult
  \/ CancelStopRaises
  \/ \E t \in TaskIds : TaskStarted(t)
  \/ \E t \in TaskIds : TaskProgressStarting(t)
  \/ \E t \in TaskIds : TaskProgressRunning(t)
  \/ \E t \in TaskIds : TaskReturns(t)
  \/ \E t \in TaskIds : TaskFails(t)

Spec == Init /\ [][Next]_vars

\* Requests in flight go on, responses go out, the workers keep taking and
\* finishing tasks, and the run keeps being polled through get_status.  A
\* step waits while a response goes out, so the fairness is strong: a step
\* that can be taken again and again is taken.
Fairness ==
  /\ SF_vars(Save) /\ WF_vars(Respond)
  /\ SF_vars(CancelSendStop) /\ SF_vars(CancelStopResult)
  /\ SF_vars(StopSimulation)
  /\ \A t \in TaskIds : /\ SF_vars(LateStop(t))
                        /\ SF_vars(TaskStarted(t))
                        /\ SF_vars(TaskProgressStarting(t))
                        /\ SF_vars(TaskReturns(t))
  /\ SF_vars(GetStatusSync) /\ SF_vars(GetStatusUnchanged)

FairSpec == Spec /\ Fairness

\* ================================================== the worker's side
\* The second specification follows the one task of a run through the worker
\* pool: the executor run_simulation with its container, the per-process
\* _task_container_mapping, and stop_simulation with its branches.

\* self.request.id of the executor that is followed.
request_id == 1

\* One dispatch: execute_run on the pending run.
Dispatch ==
  /\ nsent = 0
  /\ ExecuteSendTask(TRUE)

\* Positions of run_simulation between its first and its last statement.
Executing == {"started", "progress", "launched", "registered"}

\* get_container_id in process p.
get_container_id(p) == request_id \in registry[p]

\* register_task_container / unregister_task_container in process p.
register_task_container(p) == [registry EXCEPT ![p] = @ \cup {request_id}]
unregister_task_container(p) == [registry EXCEPT ![p] = @ \ {request_id}]

\* A pool process takes the run task off the queue; a task revoked while it
\* was queued is dropped instead.
WorkerTakes ==
  /\ Sent(request_id) /\ epc = "queued" /\ bstate[request_id] = "PENDING"
  /\ \E p \in Procs : wproc' = p
  /\ epc' = "started"
  /\ bstate' = [bstate EXCEPT ![request_id] = "STARTED"]
  /\ resp' = NoResponse
  /\ UNCHANGED <<pvars, rvars, db, req, now, nsent, bmeta, lateStops, container, code,
                 registry, scratch, outdir, vnc_url>>

\* os.makedirs(run_dir) and update_state(PROGRESS, STARTING), before the
\* try block.
UpdateStateStarting ==
  /\ Sent(request_id) /\ epc = "started"
  /\ epc' = "progress"
  /\ bstate' = [bstate EXCEPT ![request_id] = "PROGRESS"]
  /\ bmeta' = [bmeta EXCEPT ![request_id] = STARTING]
  /\ resp' = NoResponse
  /\ UNCHANGED <<pvars, rvars, db, req, now, nsent, lateStops, wproc, vnc_url, container, code,
                 registry, scratch, outdir>>

\* os.makedirs(run_dir) or the first update_state raises: both stand before
\* the try block, so the exception leaves run_simulation and the broker
\* records FAILURE.
SetupRaises ==
  /\ Sent(request_id) /\ epc = "started"
  /\ epc' = "raised"
  /\ bstate' = [bstate EXCEPT ![request_id] = "FAILURE"]
  /\ bmeta' = [bmeta EXCEPT ![request_id] = "none"]
  /\ resp' = NoResponse
  /\ UNCHANGED <<pvars, rvars, db, req, now, nsent, lateStops, wproc, vnc_url, container,
                 code, registry, scratch, outdir>>

\* An except branch that leaves the entry of the task.
ReturnsFailedKeepsEntry ==
  /\ epc' = "done"
  /\ registry' = registry
  /\ bstate' = [bstate EXCEPT ![request_id] = "SUCCESS"]
  /\ bmeta' = [bmeta EXCEPT ![request_id] = FAILED]
  /\ resp' = NoResponse

\* The except branch: unregister, container.stop (and remove in GUI mode)
\* with their errors swallowed, and the FAILED payload is returned, which
\* the broker stores as SUCCESS.
ReturnsFailed ==
  /\ epc' = "done"
  /\ registry' = unregister_task_container(wproc)
  /\ bstate' = [bstate EXCEPT ![request_id] = "SUCCESS"]
  /\ bmeta' = [bmeta EXCEPT ![request_id] = FAILED]
  /\ resp' = NoResponse

\* client.containers.run(..., detach=True, remove=not gui_mode) returns.
ContainersRun ==
  /\ Sent(request_id) /\ epc = "progress"
  /\ epc' = "launched"
  /\ container' = "running"
  /\ resp' = NoResponse
  /\ UNCHANGED <<pvars, rvars, db, req, now, nsent, bstate, bmeta, lateStops, wproc, vnc_url, code,
                 registry, scratch, outdir>>

\* docker.from_env or containers.run raises: no container.
ContainersRunRaises ==
  /\ Sent(request_id) /\ epc = "progress"
  /\ ReturnsFailed
  /\ UNCHANGED <<pvars, rvars, db, req, now, nsent, lateStops, wproc, vnc_url, container, code,
                 scratch, outdir>>

\* An executor that goes on to supervise without registering.
RegisterTaskContainerSkipped ==
  /\ Sent(request_id) /\ epc = "launched"
  /\ epc' = "registered"
  /\ resp' = NoResponse
  /\ UNCHANGED <<pvars, rvars, db, req, now, nsent, bstate, bmeta, lateStops, wproc, vnc_url,
                 container, code, registry, scratch, outdir>>

\* register_task_container(task_id, container_id), right after the launch.
RegisterTaskContainer ==
  /\ Sent(request_id) /\ epc = "launched"
  /\ epc' = "registered"
  /\ registry' = register_task_container(wproc)
  /\ resp' = NoResponse
  /\ UNCHANGED <<pvars, rvars, db, req, now, nsent, bstate, bmeta, lateStops, wproc, vnc_url,
                 container, code, scratch, outdir>>

\* The simulation ends by itself with exit code c, having written entries
\* into the project's results directory or not (w).  A headless container
\* was started with remove=True and is removed by the runtime.
ContainerExits ==
  /\ Ready /\ container = "running"
  /\ \E c \in {0, 1} : code' = c
  /\ \E w \in BOOLEAN : scratch' = (scratch \/ w)
  /\ container' = IF db.use_gui THEN "exited" ELSE "removed"
  /\ resp' = NoResponse
  /\ UNCHANGED <<pvars, rvars, db, req, now, nsent, bstate, bmeta, lateStops, epc, wproc, vnc_url,
                 registry, outdir>>

\* move_results: every entry of results_dir is moved into run_dir and the
\* directory is removed; nothing happens when it does not exist.
move_results ==
  /\ outdir' = (outdir \/ scratch)
  /\ scratch' = FALSE

\* Headless mode after the log stream ended: container.wait, unregister,
\* then move_results and the SUCCESS payload for exit code 0, RuntimeError
\* and the except branch otherwise.
HeadlessReturns ==
  /\ Sent(request_id) /\ epc = "registered" /\ ~db.use_gui
  /\ container = "removed"
  /\ IF code = 0
       THEN /\ move_results
            /\ epc' = "done"
            /\ registry' = unregister_task_container(wproc)
            /\ bstate' = [bstate EXCEPT ![request_id] = "SUCCESS"]
            /\ bmeta' = [bmeta EXCEPT ![request_id] = SUCCESS]
            /\ resp' = NoResponse
       ELSE /\ ReturnsFailed
            /\ UNCHANGED <<scratch, outdir>>
  /\ UNCHANGED <<pvars, rvars, db, req, now, nsent, lateStops, wproc, vnc_url, container, code>>

\* One iteration of the GUI loop on a running container: reload,
\* update_state(PROGRESS, RUNNING), sleep.
GuiPoll ==
  /\ Sent(request_id) /\ epc = "registered" /\ db.use_gui
  /\ container = "running"
  /\ \E bound \in BOOLEAN :
       vnc_url' = IF bound THEN VncUrl(vnc_uuid) ELSE NoUrl
  /\ bmeta[request_id] # RUNNING \/ vnc_url' # vnc_url
  /\ bmeta' = [bmeta EXCEPT ![request_id] = RUNNING]
  /\ resp' = NoResponse
  /\ UNCHANGED <<pvars, rvars, db, req, now, nsent, bstate, lateStops, epc, wproc,
                 container, code, registry, scratch, outdir>>

\* The iteration that finds status 'exited': vnc_url is computed from the
\* ports of the reloaded container as in every iteration, then break,
\* move_results, unregister, and the payload by exit code with that vnc_url.
GuiReturns ==
  /\ Sent(request_id) /\ epc = "registered" /\ db.use_gui
  /\ container = "exited"
  /\ \E bound \in BOOLEAN :
       vnc_url' = IF bound THEN VncUrl(vnc_uuid) ELSE NoUrl
  /\ move_results
  /\ epc' = "done"
  /\ registry' = unregister_task_container(wproc)
  /\ bstate' = [bstate EXCEPT ![request_id] = "SUCCESS"]
  /\ bmeta' = [bmeta EXCEPT ![request_id] = IF code = 0 THEN SUCCESS ELSE FAILED]
  /\ resp' = NoResponse
  /\ UNCHANGED <<pvars, rvars, db, req, now, nsent, lateStops, wproc, container, code>>

\* The iteration past simulation_max_timeout: vnc_url computed as in every
\* iteration, container.stop, exit_code = 1, and the FAILED payload is
\* returned.
GuiTimeout ==
  /\ Sent(request_id) /\ epc = "registered" /\ db.use_gui
  /\ container = "running"
  /\ \E bound \in BOOLEAN :
       vnc_url' = IF bound THEN VncUrl(vnc_uuid) ELSE NoUrl
  /\ container' = "exited"
  /\ code' = 1
  /\ move_results
  /\ epc' = "timed_out"
  /\ registry' = unregister_task_container(wproc)
  /\ bstate' = [bstate EXCEPT ![request_id] = "SUCCESS"]
  /\ bmeta' = [bmeta EXCEPT ![request_id] = FAILED]
  /\ resp' = NoResponse
  /\ UNCHANGED <<pvars, rvars, db, req, now, nsent, lateStops, wproc>>

\* container.reload() on a container the stop task removed raises NotFound:
\* the except branch, whose payload has no 'vnc_url'.
GuiReloadRaises ==
  /\ Sent(request_id) /\ epc = "registered" /\ db.use_gui
  /\ container = "removed"
  /\ ReturnsFailed
  /\ vnc_url' = NoUrl
  /\ UNCHANGED <<pvars, rvars, db, req, now, nsent, lateStops, wproc, container, code,
                 scratch, outdir>>

\* stop_simulation(task_id) run in pool process p, reporting out.
\*   revoke raises (rev = FALSE): the outer except, FAILED.
\*   revoke(terminate=True): the broker marks the task; a pool process that
\*     is executing it in another process than p is signalled, and its
\*     module globals go with it (kill) unless the signal comes too late.
\*   get_container_id finds nothing in p's mapping: CANCELLED.
\*   found: containers.get / stop / remove / unregister, CANCELLED (a
\*     container that was stopped has a nonzero exit code);
\*     DockerNotFound unregisters, CANCELLED; another docker error
\*     (ok = FALSE): FAILED, nothing undone.
stop_simulation(p, out) ==
  \E rev \in BOOLEAN :
    IF ~rev
      THEN /\ out = FAILED
           /\ UNCHANGED <<bstate, wvars>>
      ELSE /\ bstate' = Revoke(bstate, request_id)
           /\ \E kill \in BOOLEAN, ok \in BOOLEAN :
                LET dies == kill /\ epc \in Executing /\ wproc # p
                    found == get_container_id(p)
                    mine == IF dies THEN [registry EXCEPT ![wproc] = {}]
                                    ELSE registry
                IN /\ epc' = IF dies THEN "killed" ELSE epc
                   /\ IF ~found
                        THEN /\ out = CANCELLED
                             /\ registry' = mine
                             /\ container' = container
                        ELSE IF container = "removed"
                          THEN /\ out = CANCELLED
                               /\ registry' = [mine EXCEPT ![p] = @ \ {request_id}]
                               /\ container' = container
                        ELSE IF ok
                          THEN /\ out = CANCELLED
                               /\ registry' = [mine EXCEPT ![p] = @ \ {request_id}]
                               /\ container' = "removed"
                          ELSE /\ out = FAILED
                               /\ registry' = mine
                               /\ container' = container
                   /\ code' = IF container = "running" /\ container' = "removed"
                                THEN 1 ELSE code
                   /\ UNCHANGED <<wproc, vnc_url, scratch, outdir>>

\* The stop task of a cancel that is waiting in stop_task.get.
StopTask ==
  \E q \in InFlight : \E p \in Procs : \E out \in {CANCELLED, FAILED} :
    /\ Ready
    /\ q.pc = "wait_stop" /\ q.stop = "queued"
    /\ stop_simulation(p, out)
    /\ req' = Goes(q, [q EXCEPT !.stop = out])
    /\ resp' = NoResponse
    /\ UNCHANGED <<pvars, rvars, db, now, nsent, bmeta, lateStops>>

\* The stop task of a cancel that gave up waiting for it.
LateStopTask ==
  \E p \in Procs : \E out \in {CANCELLED, FAILED} :
    /\ Ready
    /\ request_id \in lateStops
    /\ stop_simulation(p, out)
    /\ lateStops' = lateStops \ {request_id}
    /\ resp' = NoResponse
    /\ UNCHANGED <<pvars, rvars, db, req, now, nsent, bmeta>>

\* Run.get_vnc_url on copy l, with broker state st and the 'vnc_url' of the
\* broker's meta or result.
get_vnc_url(l, st, url) ==
  IF ~l.use_gui \/ l.task_id = NULL THEN NoUrl
  ELSE IF l.status # RUNNING THEN NoUrl
  ELSE IF st \in {"PROGRESS", "SUCCESS"} THEN url
  ELSE NoUrl

WorkerNext ==
  \/ Dispatch
  \/ Save
  \/ Respond
  \/ GetStatusUnchanged
  \/ GetStatusSync
  \/ CancelNoop
  \/ CancelRejected
  \/ CancelAccept
  \/ CancelSendStop
  \/ CancelStopResult
  \/ CancelStopRaises
  \/ StopTask
  \/ LateStopTask
  \/ WorkerTakes
  \/ UpdateStateStarting
  \/ SetupRaises
  \/ ContainersRun
  \/ ContainersRunRaises
  \/ RegisterTaskContainer
  \/ ContainerExits
  \/ HeadlessReturns
  \/ GuiPoll
  \/ GuiReturns
  \/ GuiTimeout
  \/ GuiReloadRaises

\* Requests in flight go on and responses go out; the pool and the
\* container are left to themselves (a pool can stay busy, a simulation can
\* run on).
WorkerFairness ==
  /\ SF_vars(Save) /\ WF_vars(Respond)
  /\ SF_vars(CancelSendStop) /\ SF_vars(CancelStopResult)

WorkerSpec == Init /\ [][WorkerNext]_vars /\ WorkerFairness

\* ======================================================== the registry
\* The third specification takes _task_container_mapping of one worker
\* process by itself: independent tasks, each with its own task id, call
\* register_task_container, get_container_id and unregister_task_container
\* in any order and interleaving.

\* Container ids, and the calls that are followed.
NumIds == 2
MaxCalls == 3
ContainerIds == 1..NumIds

\* A dict assignment that keeps an entry that is there.
DictSetDefault(m, t, c) == IF m[t] = NULL THEN [m EXCEPT ![t] = c] ELSE m

\* _task_container_mapping[task_id] = container_id
DictSet(m, t, c) == [m EXCEPT ![t] = c]

\* _task_container_mapping.get(task_id): the value, or None.
DictGet(m, t) == m[t]

\* A pop that empties the dict.
DictPopAll(m, t) == [k \in DOMAIN m |-> NULL]

\* _task_container_mapping.pop(task_id, None): the dict afterwards (the
\* value returned is DictGet before).
DictPop(m, t) == [m EXCEPT ![t] = NULL]

\* Calls begun and not yet through their dict operation.
Calling == {t \in TaskIds : calls[t] # Idle}

CallFree(t) ==
  /\ calls[t] = Idle
  /\ Len(hist) + Cardinality(Calling) < MaxCalls

\* Task t enters register_task_container(t, c).
RegisterCall ==
  \E t \in TaskIds : \E c \in ContainerIds :
    /\ CallFree(t)
    /\ calls' = [calls EXCEPT ![t] = [op |-> "register", val |-> c]]
    /\ UNCHANGED <<pvars, db, req, resp, now, nsent, bstate, bmeta, lateStops, wvars,
                   task_container_mapping, hist>>

\* Task t enters get_container_id(t).
LookupCall ==
  \E t \in TaskIds :
    /\ CallFree(t)
    /\ calls' = [calls EXCEPT ![t] = [op |-> "lookup", val |-> NULL]]
    /\ UNCHANGED <<pvars, db, req, resp, now, nsent, bstate, bmeta, lateStops, wvars,
                   task_container_mapping, hist>>

\* Task t enters unregister_task_container(t).
UnregisterCall ==
  \E t \in TaskIds :
    /\ CallFree(t)
    /\ calls' = [calls EXCEPT ![t] = [op |-> "unregister", val |-> NULL]]
    /\ UNCHANGED <<pvars, db, req, resp, now, nsent, bstate, bmeta, lateStops, wvars,
                   task_container_mapping, hist>>

\* The dict operation of the function task t is in, and its return: the
\* interpreter runs one dict operation as one step.  ret is what the
\* function returns (register returns nothing).
RegistryReturns ==
  \E t \in TaskIds :
    /\ calls[t] # Idle
    /\ LET o == calls[t].op
           m == task_container_mapping
       IN /\ task_container_mapping' =
               IF o = "register" THEN DictSet(m, t, calls[t].val)
               ELSE IF o = "unregister" THEN DictPop(m, t)
               ELSE m
          /\ hist' = Append(hist, [op |-> o, key |-> t, val |-> calls[t].val,
                                   ret |-> IF o = "register" THEN NULL
                                           ELSE DictGet(m, t)])
    /\ calls' = [calls EXCEPT ![t] = Idle]
    /\ UNCHANGED <<pvars, db, req, resp, now, nsent, bstate, bmeta, lateStops, wvars>>

RegistryNext ==
  \/ RegisterCall
  \/ LookupCall
  \/ UnregisterCall
  \/ RegistryReturns

RegistrySpec == Init /\ [][RegistryNext]_vars

\* ================================================= the project's results
\* The fourth specification takes the directories of one project with
\* several runs: <project>/results, which every container of the project
\* writes into, and the directory of each run.  An entry is told by the run
\* whose container produced it.

\* Run._prepare_execution of run r, followed by send_task: the run's
\* directory and the project's results directory are removed, whatever they
\* hold, and the run's directory is created anew.
PrepareExecution(r) ==
  /\ rpc[r] = "pending"
  /\ run_dir' = [run_dir EXCEPT ![r] = {}]
  /\ results_dir' = {}
  /\ rpc' = [rpc EXCEPT ![r] = "dispatched"]
  /\ UNCHANGED <<db, req, resp, now, nsent, bstate, bmeta, lateStops, wvars, rvars>>

\* client.containers.run for run r: the project directory is mounted into
\* the container.
ContainerStarts(r) ==
  /\ rpc[r] = "dispatched"
  /\ rpc' = [rpc EXCEPT ![r] = "running"]
  /\ UNCHANGED <<db, req, resp, now, nsent, bstate, bmeta, lateStops, wvars, rvars,
                 results_dir, run_dir>>

\* The simulation of run r writes a result into <project>/results.
ContainerWrites(r) ==
  /\ rpc[r] = "running"
  /\ r \notin results_dir
  /\ results_dir' = results_dir \cup {r}
  /\ UNCHANGED <<db, req, resp, now, nsent, bstate, bmeta, lateStops, wvars, rvars,
                 run_dir, rpc>>

\* The container of run r exits.
ContainerEnds(r) ==
  /\ rpc[r] = "running"
  /\ rpc' = [rpc EXCEPT ![r] = "exited"]
  /\ UNCHANGED <<db, req, resp, now, nsent, bstate, bmeta, lateStops, wvars, rvars,
                 results_dir, run_dir>>

\* move_results(results_dir, run_dir) of the executor of run r: every entry
\* of the results directory is moved into the run's directory and the
\* results directory is removed.
MoveResults(r) ==
  /\ rpc[r] = "exited"
  /\ run_dir' = [run_dir EXCEPT ![r] = @ \cup results_dir]
  /\ results_dir' = {}
  /\ rpc' = [rpc EXCEPT ![r] = "moved"]
  /\ UNCHANGED <<db, req, resp, now, nsent, bstate, bmeta, lateStops, wvars, rvars>>

\* A headless run whose exit code is not 0 returns without moving anything.
ReturnsUnmoved(r) ==
  /\ rpc[r] = "exited"
  /\ rpc' = [rpc EXCEPT ![r] = "failed"]
  /\ UNCHANGED <<db, req, resp, now, nsent, bstate, bmeta, lateStops, wvars, rvars,
                 results_dir, run_dir>>

PrepareExecutions == \E r \in Runs : PrepareExecution(r)
ContainersStart == \E r \in Runs : ContainerStarts(r)
ContainersWrite == \E r \in Runs : ContainerWrites(r)
ContainersEnd == \E r \in Runs : ContainerEnds(r)
ExecutorsMove == \E r \in Runs : MoveResults(r)
ExecutorsReturnUnmoved == \E r \in Runs : ReturnsUnmoved(r)

ProjectNext ==
  \/ PrepareExecutions
  \/ ContainersStart
  \/ ContainersWrite
  \/ ContainersEnd
  \/ ExecutorsMove
  \/ ExecutorsReturnUnmoved

ProjectSpec == Init /\ [][ProjectNext]_vars

\* =================================================================== claims
NonTerminal == RunStatus \ Terminal

\* C1: once the persisted status is SUCCESS, FAILED or CANCELLED, no later
\* step of any request makes it a non-terminal status.
C1_TerminalIsFinal == [][db.status \in Terminal => db'.status \in Terminal]_vars

\* The transitions of the run state machine, with the synchroniser's
\* broker-terminal mappings out of every non-terminal status.
Edges ==
  {<<PENDING, STARTING>>, <<STARTING, RUNNING>>, <<RUNNING, SUCCESS>>,
   <<RUNNING, FAILED>>, <<STARTING, CANCELLING>>, <<RUNNING, CANCELLING>>,
   <<CANCELLING, CANCELLED>>} \cup (NonTerminal \X Terminal)

\* C2: every change of the persisted status is an edge of the state machine.
C2_OnlyEdges ==
  [][db'.status # db.status => <<db.status, db'.status>> \in Edges]_vars

\* C3: a run row whose task_id is set never has status PENDING.
C3_DispatchedNotPending ==
  db.task_id # NULL =>
    db.status \in {STARTING, RUNNING, CANCELLING, SUCCESS, FAILED, CANCELLED}

\* C3 witness: the broker reported the dispatched task as queued, get_status
\* assigned PENDING to its copy, and the row still says STARTING.
C3_Witness ==
  /\ db.task_id # NULL /\ db.status = STARTING
  /\ bstate[db.task_id] = "PENDING"
  /\ resp.op = "get_status" /\ resp.res = "type_error"
  /\ resp.run.status = PENDING

\* C4: end_time is set exactly when the persisted status is terminal.
C4_EndTimeIffTerminal == (db.end_time # NULL) <=> (db.status \in Terminal)

\* C5: end_time is written only by the step that makes the status terminal,
\* and once set it is never changed.
C5_EndTimeWrittenOnce ==
  [][db'.end_time # db.end_time =>
       /\ db.end_time = NULL
       /\ db.status \notin Terminal
       /\ db'.status \in Terminal]_vars

\* The execute requests that join the requests in flight in this step.
ExecuteJoins == {q \in BagToSet(req') : q.op = "execute" /\ req' = Open(q)}

\* The execute request that does its save and leaves in this step.
ExecuteSaves == {q \in InFlight : q.op = "execute" /\ q.pc = "save" /\ req' = Close(q)}

\* A step in which an execute request arrives: it is answered at once or
\* joins the requests in flight.  a tells a handler's call from a direct
\* call of Run.execute.
ExecuteCalled(a) ==
  \/ req' = req /\ resp'.op = "execute" /\ resp'.api = a
  \/ \E q \in ExecuteJoins : q.api = a

\* C6: Run.execute called on a run whose task_id is set returns the run as
\* it is: nothing is submitted, the working directory is not prepared and
\* the row keeps its task_id, status, start_time and end_time.
C6_ExecuteIdempotent ==
  [][(ExecuteCalled(FALSE) /\ db.task_id # NULL)
       => /\ resp'.res = "unchanged" /\ resp'.run = db /\ resp'.prep = 0
          /\ UNCHANGED <<db, req, now, nsent, bstate, bmeta>>]_vars

\* C6 witness: a second execute, called on the dispatched run, has returned
\* it unchanged.
C6_Witness ==
  /\ resp.op = "execute" /\ ~resp.api /\ resp.res = "unchanged"
  /\ resp.run = db /\ db.task_id = 1 /\ db.status = STARTING /\ nsent = 1

\* C7: at most one run task is ever submitted, and task_id never changes
\* once it is set.
C7_SingleDispatch ==
  [][nsent' <= 1 /\ (db.task_id # NULL => db'.task_id = db.task_id)]_vars

\* C8: an execute request whose loaded run is not PENDING is answered with
\* 400 without preparing, submitting or writing anything.
C8_ExecuteNeedsPending ==
  [][(ExecuteCalled(TRUE) /\ db.status # PENDING)
       => /\ resp'.res = "http400" /\ resp'.run = db /\ resp'.prep = 0
          /\ UNCHANGED <<db, req, now, nsent, bstate, bmeta>>]_vars

\* C8 witness: an execute request on a dispatched run was answered with 400.
C8_Witness ==
  /\ resp.op = "execute" /\ resp.api /\ resp.res = "http400"
  /\ db.status # PENDING /\ nsent = 1

\* C9: until it is dispatched the row is as created (PENDING, task_id,
\* start_time and end_time null); an execute that gets past its checks
\* prepares once and submits one task, no other step submits one, and its
\* save persists STARTING, the broker's task id and a start_time, with
\* end_time null on a row that was still as created.
C9_ExecuteDispatches ==
  /\ [](db.task_id = NULL => db = NewRun(db.use_gui))
  /\ [][/\ \A q \in ExecuteJoins :
             /\ nsent' = nsent + 1 /\ q.task = nsent'
             /\ bstate[nsent'] = "NONE" /\ bstate'[nsent'] = "PENDING"
             /\ q.prep = 1 /\ q.pc = "save" /\ db' = db
        /\ nsent' # nsent => ExecuteJoins # {}
        /\ \A q \in ExecuteSaves :
             /\ q.prep = 1 /\ q.task \in 1..nsent
             /\ db'.status = STARTING
             /\ db'.task_id = q.task
             /\ db'.start_time # NULL
             /\ (db = NewRun(db.use_gui) => db'.end_time = NULL)
             /\ resp'.res = "ok" /\ resp'.run = db']_vars

\* C9 witness: one execute on the new run has completed and returned it.
C9_Witness ==
  /\ resp.op = "execute" /\ resp.res = "ok" /\ resp.prep = 1
  /\ resp.run = db /\ nsent = 1
  /\ db = [NewRun(db.use_gui) EXCEPT !.status = STARTING, !.task_id = 1,
                                     !.start_time = 1]

\* C10: a failed preparation submits nothing and a failed submission writes
\* nothing: the failing execute leaves the row and the broker alone and
\* holds no session any more, and as long as no submission succeeded the
\* row is PENDING with task_id and start_time null.
C10_DispatchFailureAtomic ==
  /\ [][(resp'.op = "execute" /\ resp'.res \in {"io_error", "broker_error"})
          => /\ UNCHANGED <<db, req, nsent, bstate, bmeta>>
             /\ resp'.run = db]_vars
  /\ [](nsent = 0 =>
          db.status = PENDING /\ db.task_id = NULL /\ db.start_time = NULL)

\* C10 witness: a submission failed after the directory had been prepared,
\* and the row is still PENDING and undispatched.
C10_Witness ==
  /\ resp.op = "execute" /\ resp.res = "broker_error" /\ resp.prep = 1
  /\ nsent = 0 /\ db.status = PENDING /\ db.task_id = NULL
  /\ db.start_time = NULL
\* The cancel requests that join the requests in flight in this step.
CancelJoins == {q \in BagToSet(req') : q.op = "cancel" /\ req' = Open(q)}

\* A step in which a cancel request arrives: it is answered at once or
\* joins the requests in flight.
CancelCalled ==
  \/ req' = req /\ resp'.op = "cancel"
  \/ CancelJoins # {}

\* C11: a cancel request on a run that is PENDING, SUCCESS, FAILED or
\* CANCELLED fails with the precondition error, queues no stop task and
\* leaves the row as it is.
C11_CancelNeedsActive ==
  [][(CancelCalled /\ db.status \in {PENDING} \cup Terminal)
       => /\ resp'.res = "runtime_error"
          /\ UNCHANGED <<db, req, lateStops>>]_vars

\* C12: a cancel request on a run with no task_id returns the run as it
\* is: no error, no stop task, nothing written.
C12_CancelWithoutTask ==
  [][(CancelCalled /\ db.task_id = NULL)
       => /\ resp'.res = "unchanged" /\ resp'.run = db
          /\ UNCHANGED <<db, req, now, nsent, bstate, bmeta, lateStops>>]_vars

\* C12 witness: a cancel on the undispatched run has returned it unchanged.
C12_Witness ==
  /\ resp.op = "cancel" /\ resp.res = "unchanged"
  /\ resp.run = db /\ db = NewRun(db.use_gui) /\ req = EmptyBag
\* The cancel requests that return or raise in this step.
CancelLeaves == {q \in InFlight : q.op = "cancel" /\ req' = Close(q)}

\* C13: a cancel that was accepted and has submitted its stop task returns
\* without raising and leaves the row CANCELLED with end_time set, whatever
\* the stop task did.
C13_CancelAlwaysCancelled ==
  [][\A q \in CancelLeaves :
       q.stop # "none"
       => /\ resp'.res = "ok"
          /\ db'.status = CANCELLED /\ db'.end_time # NULL]_vars

\* C14: a cancel submits its stop task only after its own save has
\* committed CANCELLING: a cancel does not join with a stop task queued, the
\* save that takes it to the submission leaves the row CANCELLING, and the
\* stop task is queued from there only.
C14_CancellingBeforeStop ==
  [][/\ \A n \in CancelJoins : n.stop = "none" /\ n.pc = "save" /\ n.cont = "refresh"
     /\ \A q \in InFlight : \A n \in BagToSet(req') :
          (q.op = "cancel" /\ req' = Goes(q, n) /\ q.pc # "refresh" /\ n.pc = "refresh")
          => db'.status = CANCELLING /\ n.stop = "none"
     /\ \A q \in InFlight : \A n \in BagToSet(req') :
          (req' = Goes(q, n) /\ q.stop = "none" /\ n.stop # "none")
          => q.pc = "refresh" /\ n.stop = "queued" /\ db' = db]_vars

\* C14 witness: a stop task is queued and the row is CANCELLING.
C14_Witness ==
  \E q \in InFlight : /\ q.op = "cancel" /\ q.pc = "wait_stop" /\ q.stop = "queued"
                      /\ db.status = CANCELLING /\ q.task = db.task_id

\* A cancel is between its commit of CANCELLING and its commit of CANCELLED.
Cancelling ==
  \E q \in InFlight : q.op = "cancel" /\ (q.pc \in {"refresh", "wait_stop"} \/ q.cont = "done")

\* C15: while a cancel is between its two commits and the row is
\* CANCELLING, a get_status request returns the run as CANCELLING and
\* leaves CANCELLING persisted.
C15_StatusReadWhileCancelling ==
  [][(resp'.op = "get_status" /\ Cancelling /\ db.status = CANCELLING)
       => /\ resp'.res \in {"ok", "unchanged"}
          /\ resp'.run.status = CANCELLING
          /\ db'.status = CANCELLING]_vars
\* The row is CANCELLING and the stop task of a cancel has reported.
StopReported ==
  /\ db.status = CANCELLING
  /\ \E q \in InFlight : q.op = "cancel" /\ q.stop \in {CANCELLED, FAILED}

\* C19: once the row is CANCELLING and the stop task has reported its
\* outcome, the row is eventually CANCELLED and stays CANCELLED, when the
\* workers keep processing tasks and the run keeps being polled.
C19_CancellingEndsCancelled == [](StopReported => <>[](db.status = CANCELLED))

\* Some process of the pool has the task in its mapping.
Registered == \E p \in Procs : get_container_id(p)

\* The run is live and not being cancelled, and its executor has its
\* running container registered.
LiveRegistered ==
  /\ CancelAllowed(db)
  /\ epc = "registered" /\ container = "running" /\ Registered
  /\ \A q \in InFlight : q.op # "cancel"

\* A cancel is over and the run is CANCELLED.
CancelDone ==
  /\ db.status = CANCELLED
  /\ \A q \in InFlight : q.op # "cancel"

\* C16: when a live run whose executor has registered its running container
\* is cancelled, then once the cancel is over the container is no longer
\* running and no process of the pool has the task in its Registry,
\* whichever process ran the stop task.
C16_CancelTearsDownRegistered ==
  [](LiveRegistered => [](CancelDone => container # "running" /\ ~Registered))

\* C17: whenever the persisted status is CANCELLED (which only a cancel
\* request writes), no container launched for the run is still running,
\* whatever the executor was doing when the cancel came and whether or not a
\* worker was free for the stop task.
C17_CancelledHasNoContainer == db.status = CANCELLED => container # "running"

\* C18: every outcome a stop task reports to the cancel waiting for it has
\* status CANCELLED, whatever the state of the container and of the
\* Registry and whatever revoke, lookup, stop or remove raised.
C18_StopAlwaysCancelled ==
  [][\A q \in InFlight : \A n \in BagToSet(req') :
       (/\ req' = Goes(q, n)
        /\ q.pc = "wait_stop" /\ q.stop = "queued"
        /\ n.pc = "wait_stop" /\ n.stop # "queued")
       => n.stop = CANCELLED]_vars

\* The executor of a dispatched headless run returned after its container
\* exited with code 0, and the run was not cancelled.
HeadlessSucceeded ==
  /\ ~db.use_gui /\ db.status = STARTING
  /\ epc = "done" /\ code = 0
  /\ bstate[request_id] = "SUCCESS" /\ bmeta[request_id] = SUCCESS

\* C20: a synchronization of a headless run whose container exited with
\* code 0 leaves the persisted status SUCCESS and no scratch-results
\* directory (its entries leave it only by being moved into the run's
\* directory, so they are all there), whether or not the container wrote
\* any entry.
C20_HeadlessSuccess ==
  [][(HeadlessSucceeded /\ resp'.op = "get_status")
     => /\ db'.status = SUCCESS
        /\ ~scratch'
        /\ scratch \/ outdir => outdir']_vars

\* The executor of a dispatched headless run returned after its container
\* exited with a nonzero code, and the run was not cancelled.
HeadlessFailed ==
  /\ ~db.use_gui /\ db.status = STARTING
  /\ epc = "done" /\ container = "removed" /\ code # 0

\* C21: after a nonzero exit of a headless run's container the executor has
\* returned a payload (the broker holds no FAILURE for the task), and a
\* synchronization leaves the persisted status FAILED.
C21_HeadlessNonzeroFails ==
  [][(HeadlessFailed /\ resp'.op = "get_status")
     => /\ bstate[request_id] # "FAILURE"
        /\ db'.status = FAILED]_vars

\* C22: the iteration of the GUI loop that finds the maximum run time
\* exceeded ends the loop with the container stopped and the executor
\* returned, and a synchronization of a run that ended this way (and was not
\* cancelled) leaves the persisted status FAILED.
C22_GuiTimeoutFails ==
  [][/\ (epc = "registered" /\ epc' = "timed_out")
          => container' = "exited" /\ epc' \notin Executing
     /\ (epc = "timed_out" /\ db.status \in {STARTING, RUNNING}
         /\ resp'.op = "get_status")
          => db'.status = FAILED]_vars

\* The poll loop of a GUI run that was not cancelled found the port bound
\* and published RUNNING with the display URL.
GuiPublished ==
  /\ db.use_gui /\ db.status \in {STARTING, RUNNING}
  /\ epc = "registered"
  /\ bstate[request_id] = "PROGRESS" /\ bmeta[request_id] = RUNNING
  /\ vnc_url = VncUrl(vnc_uuid)

\* C23: once the poll loop of a GUI run has published RUNNING with the
\* display URL, a get_status call answers with the run RUNNING, persists
\* RUNNING, and the URL surfaced for the run is the one that holds the
\* access token computed at dispatch.
C23_GuiRunningWithUrl ==
  [][(GuiPublished /\ resp'.op = "get_status")
     => /\ resp'.res = "ok"
        /\ resp'.run.status = RUNNING
        /\ db'.status = RUNNING
        /\ get_vnc_url(resp'.run, bstate'[request_id], vnc_url')
             = VncUrl(vnc_uuid)]_vars

\* C30: whatever step of the executor fails, run_simulation returns a
\* payload: the broker never holds FAILURE for the run task, and an executor
\* that is over has left a payload with status SUCCESS or FAILED.
C30_ExecutorNeverRaises ==
  /\ bstate[request_id] # "FAILURE"
  /\ epc \notin Executing \cup {"queued", "killed"}
       => bstate[request_id] \in {"SUCCESS", "REVOKED"}
          /\ bmeta[request_id] \in {SUCCESS, FAILED}

\* get_status is called on a dispatched run that is not terminal while the
\* broker reports state st for its task.
SyncsOn(st) ==
  /\ resp'.op = "get_status"
  /\ ~GetStatusSkips(db)
  /\ bstate[db.task_id] = st

\* C24: when the broker reports the task as queued (PENDING), get_status on
\* a dispatched non-terminal run yields STARTING for a headless run and the
\* unchanged status for a GUI run, never PENDING.
C24_QueuedIsStarting ==
  [][SyncsOn("PENDING")
     => /\ resp'.run.status = IF db.use_gui THEN db.status ELSE STARTING
        /\ resp'.run.status # PENDING]_vars

\* C25: when the broker reports the task as STARTED, get_status on a run in
\* STARTING yields RUNNING.
C25_StartedIsRunning ==
  [][(SyncsOn("STARTED") /\ db.status = STARTING)
     => resp'.run.status = RUNNING]_vars

C27_SyncSkipsSettled ==
  [][(resp'.op = "get_status"
      /\ (db.task_id = NULL \/ db.status \in {SUCCESS, FAILED, CANCELLED}))
     => /\ resp'.res = "unchanged"
        /\ resp'.run = db
        /\ UNCHANGED <<db, req, now, nsent, bstate, bmeta, lateStops>>]_vars

\* get_status returned a cancelled run whose task the broker holds as
\* finished with SUCCESS.
C27_Witness ==
  /\ resp.op = "get_status" /\ resp.res = "unchanged"
  /\ db.status = CANCELLED /\ resp.run = db
  /\ bstate[db.task_id] = "SUCCESS"

\* What a map holds for key t after the calls of h: the id of the last
\* register of t that no unregister of t follows, and nothing otherwise.
RECURSIVE LastRegistered(_, _)
LastRegistered(h, t) ==
  IF h = << >> THEN NULL
  ELSE LET e == h[Len(h)]
       IN IF e.key = t /\ e.op = "register" THEN e.val
          ELSE IF e.key = t /\ e.op = "unregister" THEN NULL
          ELSE LastRegistered(SubSeq(h, 1, Len(h) - 1), t)

\* C28: after any sequence of register, lookup and unregister calls the
\* Registry holds for every task id the id of its most recent register that
\* no unregister followed (so a register overwrites) and nothing otherwise;
\* every lookup and every unregister returned what the Registry held for
\* its own key at that point, whatever was done on other keys.
C28_RegistryIsAMap ==
  /\ \A t \in TaskIds :
       DictGet(task_container_mapping, t) = LastRegistered(hist, t)
  /\ \A i \in 1..Len(hist) :
       hist[i].op \in {"lookup", "unregister"}
         => hist[i].ret = LastRegistered(SubSeq(hist, 1, i - 1), hist[i].key)

\* A second register of a task id replaced the first while another task id
\* was registered, and a lookup returned the second.
C28_Witness ==
  \E i, j, k \in 1..Len(hist) :
    /\ i < j /\ j < k
    /\ hist[i].op = "register" /\ hist[j].op = "register"
    /\ hist[i].key = hist[j].key /\ hist[i].val # hist[j].val
    /\ hist[k].op = "lookup" /\ hist[k].key = hist[j].key
    /\ hist[k].ret = hist[j].val
    /\ \E u \in TaskIds \ {hist[j].key} : task_container_mapping[u] = NULL

\* C29: with tasks inside registry functions at the same time, each on its
\* own task id, a dict operation of one task changes no other task's entry
\* and no other task's call, and what it returns is an id that task itself
\* registered or nothing: no update is lost and no task sees or removes
\* another task's entry.
C29_NoLostUpdate ==
  [][\A t \in TaskIds :
       (calls[t] # Idle /\ calls'[t] = Idle)
       => /\ \A u \in TaskIds \ {t} :
               /\ task_container_mapping'[u] = task_container_mapping[u]
               /\ calls'[u] = calls[u]
          /\ LET e == hist'[Len(hist')]
                 own == {hist[i].val : i \in {n \in 1..Len(hist) :
                           hist[n].key = t /\ hist[n].op = "register"}}
             IN /\ e.key = t
                /\ e.ret \in own \cup {NULL}
                /\ task_container_mapping'[t] \in own \cup {NULL, e.val}]_vars

\* A task registered while another task, which had registered before, was
\* inside a registry function, and both entries are there.
C29_Witness ==
  /\ Len(hist) >= 2
  /\ LET e == hist[Len(hist)]
     IN /\ e.op = "register" /\ task_container_mapping[e.key] = e.val
        /\ \E u \in TaskIds \ {e.key} :
             /\ calls[u] # Idle
             /\ task_container_mapping[u] # NULL

\* C31: the cancel of a run that is STARTING or RUNNING with a task_id
\* returns the run as CANCELLING, and the coordinator revokes the broker
\* task itself (terminate=True, SIGTERM): no stop task is involved, and the
\* task is no longer unfinished at the broker when the cancel returns.
C31_CancelRevokesDirectly ==
  [][\A q \in CancelLeaves :
       /\ resp'.res = "ok"
       /\ resp'.run.status = CANCELLING
       /\ q.stop = "none"
       /\ bstate'[q.task] \notin Unfinished]_vars

\* C36: get_status on a dispatched run that is not terminal returns without
\* error and persists what it computed: the stored row then has the status
\* and the end_time of the run it returned.
C36_SyncPersists ==
  [][(resp'.op = "get_status"
      /\ db.task_id # NULL /\ db.status \notin {SUCCESS, FAILED, CANCELLED})
     => /\ resp'.res = "ok"
        /\ db'.status = resp'.run.status
        /\ db'.end_time = resp'.run.end_time]_vars

\* C39: start_time is set exactly when task_id is set: the row starts with
\* neither, every step leaves it with both or neither, and a step that
\* writes either of them is the save of an execute that has sent its task,
\* which writes both.
C39_StartTimeIffTask ==
  [][/\ (db.start_time # NULL) <=> (db.task_id # NULL)
     /\ (db'.start_time # NULL) <=> (db'.task_id # NULL)
     /\ (db'.start_time # db.start_time \/ db'.task_id # db.task_id)
          => /\ \E q \in ExecuteSaves : q.task # NULL /\ db'.task_id = q.task
             /\ db'.start_time # NULL]_vars

\* C39 witness: a second dispatch has overwritten task_id and start_time
\* together.
C39_Witness ==
  /\ nsent = 2 /\ db.task_id = 2 /\ db.start_time # NULL
  /\ resp.op = "execute" /\ resp.res = "ok"

\* The fields get_status and cancel are said to leave alone.
Kept == {"task_id", "start_time", "use_gui"}

\* The request of operation op that takes this step, if one does.
Moves(q) ==
  \/ req' = Open(q) /\ q \in BagToSet(req')
  \/ q \in InFlight /\ req' = Close(q)
  \/ q \in InFlight /\ req' # req /\ \E n \in BagToSet(req') : req' = Goes(q, n)

\* C40: get_status and cancel write status and end_time only: every step
\* of either leaves task_id, start_time and use_gui of the row as they
\* were, the run a call answers at once with has the values of the row, and
\* the copy a call works on keeps the values it loaded.
C40_SyncAndCancelFrame ==
  [][/\ \A q \in BagToSet(req) \cup BagToSet(req') :
          (q.op \in {"get_status", "cancel"} /\ Moves(q))
          => \A f \in Kept : db'[f] = db[f]
     /\ (resp'.op \in {"get_status", "cancel"} /\ req' = req)
          => \A f \in Kept : db'[f] = db[f] /\ resp'.run[f] = db[f]
     /\ \A q \in BagToSet(req') :
          q.op \in {"get_status", "cancel"}
          => \A f \in Kept : q.loc[f] = q.base[f]]_vars

\* C40 witness: a cancel has committed CANCELLED on a dispatched run.
C40_Witness ==
  /\ resp.op = "cancel" /\ resp.res = "ok"
  /\ db.status = CANCELLED /\ db.end_time # NULL
  /\ db.task_id # NULL /\ db.start_time # NULL

\* The executor observes its container in this step: it publishes a poll
\* result, or it returns after a wait, a poll or the end of the log stream.
Observes ==
  /\ epc \in Executing /\ container # "none"
  /\ \/ epc' \in {"done", "timed_out"}
     \/ bmeta'[request_id] # bmeta[request_id]
     \/ vnc_url' # vnc_url

\* C32: within one executor invocation the task is registered after the
\* launch succeeded and before the executor first waits on, polls or reads
\* from the container, in both modes: an entry is added only by the executor
\* that has launched, in its own process; the executor gets past the
\* registration only with the entry made; and every observation of the
\* container is made from past the registration.
C32_RegisterBeforeWait ==
  [][/\ \A p \in Procs :
          (~get_container_id(p) /\ request_id \in registry'[p])
          => epc = "launched" /\ container # "none" /\ p = wproc
     /\ (epc # "registered" /\ epc' = "registered")
          => epc = "launched" /\ request_id \in registry'[wproc]
     /\ Observes => epc = "registered"]_vars

\* C32 witness: the task is registered, the container runs and nothing has
\* been polled yet.
C32_Witness ==
  /\ epc = "registered" /\ container = "running" /\ get_container_id(wproc)
  /\ db.use_gui /\ bmeta[request_id] = STARTING /\ vnc_url = NoUrl

\* C33: a concurrent cancellation can always find the container: whenever
\* the container launched for the task is running, a lookup of the task by
\* the stop task returns it, here even for a stop task that runs in the
\* executor's own process.
C33_RunningIsRegistered ==
  container = "running" => get_container_id(wproc)

\* C34: on every exit path of the executor (headless success, headless
\* nonzero exit, GUI container exit, GUI timeout, an exception) no process
\* holds an entry for the task when run_simulation has returned or raised.
C34_NoOrphanEntry ==
  epc \in {"done", "timed_out", "raised"} => \A p \in Procs : ~get_container_id(p)

\* C34 witness: a headless executor that had registered its container has
\* returned through the except branch after a nonzero exit code.
C34_Witness ==
  /\ epc = "done" /\ ~db.use_gui /\ container = "removed" /\ code # 0
  /\ bmeta[request_id] = FAILED
  /\ \A p \in Procs : ~get_container_id(p)

\* C35: for a headless run whose executor has seen the container start
\* and whose container is still running, get_status yields RUNNING.
C35_HeadlessRunning ==
  [][(resp'.op = "get_status"
      /\ ~db.use_gui /\ epc = "registered" /\ container = "running"
      /\ db.task_id # NULL /\ db.status \in {STARTING, RUNNING})
     => resp'.run.status = RUNNING]_vars

\* C38: the payload a GUI execution returns carries the last known display
\* URL: when the last iteration before the one that finds the container
\* exited had computed a URL, the payload has that URL, also when the ports
\* are not bound any more in the iteration that finds it exited.
C38_PayloadKeepsUrl ==
  [][(db.use_gui /\ epc = "registered" /\ epc' = "done"
      /\ container = "exited"
      /\ vnc_url # NoUrl)
     => vnc_url' = vnc_url]_vars

\* C37: results never leak across runs of one project: every entry in a
\* run's directory was produced by that run's own container, and the
\* dispatch of a run deletes no result that another run, still executing,
\* has produced.
C37_NoLeakAcrossRuns ==
  [][/\ \A r \in Runs : run_dir'[r] \subseteq {r}
     /\ \A r \in Runs : \A o \in Runs \ {r} :
          (rpc[r] = "pending" /\ rpc'[r] = "dispatched"
           /\ rpc[o] \in {"running", "exited"} /\ o \in results_dir)
          => o \in results_dir']_vars
====
